---- MODULE Spec2Model ----
(***************************************************************************)
(* State-machine model of the goafweb user subsystem: the user validator   *)
(* (validation/users.go), the password-reset validator                     *)
(* (validation/pw_reset.go), the gorm-backed stores (storage), the         *)
(* userService orchestrator (Authenticate, InitiatePWReset,                *)
(* CompletePWReset) and the Login / Logout handlers.                       *)
(*                                                                         *)
(* Go strings are modelled as sequences of one-character strings, so that  *)
(* trimming, lower-casing, the e-mail regular expression, len() and        *)
(* concatenation are computed, not assumed.  The empty Go string is <<>>.  *)
(***************************************************************************)
EXTENDS Integers, Sequences, FiniteSets, TLC

VARIABLES
    users,      \* the users table
    resets,     \* the pw_resets table
    now,        \* the clock time.Now() reads, in hours
    nextToken,  \* how many tokens the entropy source has handed out, plus one
    faulty,     \* whether database calls may fail in this run
    last,       \* the call that has just run and what it returned
    used,       \* history: the tokens CompletePWReset has succeeded with
    procs       \* the calls that run concurrently, each with its position

vars == <<users, resets, now, nextToken, faulty, last, used, procs>>

(***************************************************************************)
(* Bounds of the model.                                                    *)
(***************************************************************************)
MaxUsers == 2
MaxResets == 1
MaxTokens == 2
MaxTime == 24
\* The reset flow on its own (SpecResets): room for several open reset
\* records of one user.
MaxOpenResets == 2
MaxResetTokens == 3

(***************************************************************************)
(* Program constants.                                                      *)
(***************************************************************************)
MinPwLen == 8
TokenValidHours == 12
TldMin == 2
TldMax == 16
StatusOK == 200
StatusBadRequest == 400
StatusUnauthorized == 401
StatusUnprocessableEntity == 422
StatusInternalServerError == 500

(***************************************************************************)
(* Characters and strings.                                                 *)
(***************************************************************************)
LowerSeq == <<"a","b","c","d","e","f","g","h","i","j","k","l","m",
              "n","o","p","q","r","s","t","u","v","w","x","y","z">>
UpperSeq == <<"A","B","C","D","E","F","G","H","I","J","K","L","M",
              "N","O","P","Q","R","S","T","U","V","W","X","Y","Z">>
LowerLetters == {LowerSeq[i] : i \in 1..Len(LowerSeq)}
UpperLetters == {UpperSeq[i] : i \in 1..Len(UpperSeq)}
Digits == {"0","1","2","3","4","5","6","7","8","9"}
WhiteSpace == {" ", "\t", "\n", "\r"}

\* unicode.ToLower restricted to ASCII.
ToLowerChar(c) ==
    IF c \in UpperLetters
    THEN LowerSeq[CHOOSE i \in 1..Len(UpperSeq) : UpperSeq[i] = c]
    ELSE c

\* strings.ToLower
ToLower(s) == [i \in 1..Len(s) |-> ToLowerChar(s[i])]

RECURSIVE TrimLeft(_)
TrimLeft(s) ==
    IF s # <<>> /\ Head(s) \in WhiteSpace THEN TrimLeft(Tail(s)) ELSE s

RECURSIVE TrimRight(_)
TrimRight(s) ==
    IF s # <<>> /\ s[Len(s)] \in WhiteSpace
    THEN TrimRight(SubSeq(s, 1, Len(s) - 1))
    ELSE s

\* strings.TrimSpace
TrimSpace(s) == TrimRight(TrimLeft(s))

AllIn(s, lo, hi, class) == \A k \in lo..hi : s[k] \in class

\* The regular expression ^[a-z0-9._%+\-]+@[a-z0-9.\-]+\.[a-z]{2,16}$ :
\* i is the position of the "@", j the position of the "." before the TLD.
LocalChars == LowerLetters \cup Digits \cup {".", "_", "%", "+", "-"}
DomainChars == LowerLetters \cup Digits \cup {".", "-"}
emailRegexMatch(s) ==
    \E i \in 2..Len(s) : \E j \in (i + 2)..Len(s) :
        /\ s[i] = "@"
        /\ s[j] = "."
        /\ AllIn(s, 1, i - 1, LocalChars)
        /\ AllIn(s, i + 1, j - 1, DomainChars)
        /\ Len(s) - j >= TldMin
        /\ Len(s) - j <= TldMax
        /\ AllIn(s, j + 1, Len(s), LowerLetters)

(***************************************************************************)
(* Errors.  An error is the chain of messages errors.Is walks: fmt.Errorf  *)
(* with %w puts a message in front of the wrapped chain, fmt.Errorf with   *)
(* %v keeps the text only, so the chain behind it is lost.  NoErr is nil.  *)
(***************************************************************************)
NoErr == <<>>
ErrNotFound == "Database Error: Resource not found."
ErrPWInvalid == "Authentication error: password invalid."
ErrAuth == "Authentication error: username/password invalid"
ValidationMark == "Validation Error"
ErrTaken == "That email address is already taken"
ErrDatabase == "Database error"
ErrExpired == "Token no longer valid"

New(msg) == <<msg>>
Wrap(msg, err) == <<msg>> \o err
ErrorsIs(err, target) == \E i \in 1..Len(err) : err[i] = target

(***************************************************************************)
(* Hashing and token generation.                                           *)
(***************************************************************************)
PwPepper == <<"#", "k">>
BcryptPrefix == <<"$", "2", "a", "$">>

\* bcrypt.GenerateFromPassword: a salted one-way hash; the model keeps the
\* salt and the hashed bytes apart so that comparison can be computed.
bcryptGenerate(key, salt) == BcryptPrefix \o <<salt>> \o key

bcryptWellFormed(h) ==
    /\ Len(h) > Len(BcryptPrefix)
    /\ SubSeq(h, 1, Len(BcryptPrefix)) = BcryptPrefix

\* bcrypt.CompareHashAndPassword: "ok", "mismatch"
\* (bcrypt.ErrMismatchedHashAndPassword) or "malformed" (any other error).
bcryptCompare(h, key) ==
    IF ~bcryptWellFormed(h) THEN "malformed"
    ELSE IF SubSeq(h, Len(BcryptPrefix) + 2, Len(h)) = key THEN "ok"
    ELSE "mismatch"

\* The salt bcrypt draws for a new hash: bcrypt salts are random, so the
\* salt of a new hash differs from the salt of the hash it replaces.
FreshSalt(oldHash) ==
    IF bcryptWellFormed(oldHash) /\ oldHash[Len(BcryptPrefix) + 1] = "1"
    THEN "2"
    ELSE "1"

\* hash.HMAC.Hash: deterministic keyed hash of a token, never empty.
hmacHash(token) == <<"h", "=">> \o token

\* rand.RememberToken: the n-th token drawn from the entropy source.
RememberToken(n) == <<"t", ToString(n)>>

(***************************************************************************)
(* Records.  A User in flight carries the transient Password and           *)
(* RememberToken; a stored row has only the persisted columns (both        *)
(* transient fields are tagged gorm:"-").                                  *)
(***************************************************************************)
ZeroUser ==
    [ID |-> 0, Email |-> <<>>, Password |-> <<>>, PasswordHash |-> <<>>,
     RememberToken |-> <<>>, RememberHash |-> <<>>]

Row(u) ==
    [ID |-> u.ID, Email |-> u.Email, PasswordHash |-> u.PasswordHash,
     RememberHash |-> u.RememberHash]

Load(row) ==
    [ID |-> row.ID, Email |-> row.Email, Password |-> <<>>,
     PasswordHash |-> row.PasswordHash, RememberToken |-> <<>>,
     RememberHash |-> row.RememberHash]

ZeroPwReset ==
    [ID |-> 0, UserID |-> 0, Token |-> <<>>, TokenHash |-> <<>>, CreatedAt |-> 0]

(***************************************************************************)
(* Storage layer (storage/users.go, the gorm stores).  users and resets    *)
(* are the tables, indexed by their auto-increment ID.  fail says that the *)
(* database call itself fails.                                             *)
(***************************************************************************)
\* checkErr over the outcomes of a gorm call: "nil", "RecordNotFound", "other".
checkErr(gormErr) ==
    IF gormErr # "nil"
    THEN IF gormErr = "RecordNotFound" THEN New(ErrNotFound) ELSE New(ErrDatabase)
    ELSE NoErr

\* checkErr as the file's third copy of the storage code has it
\* (storage/users.go:271-276): there is no test for a nil error.
checkErrRev3(gormErr) ==
    IF gormErr = "RecordNotFound" THEN New(ErrNotFound) ELSE New(ErrDatabase)

\* gorm's First over the rows that match.
gormFirst(tbl, match, fail) ==
    IF fail THEN "other"
    ELSE IF match = {} THEN "RecordNotFound"
    ELSE "nil"

FirstRow(tbl, match) == tbl[CHOOSE i \in match : \A j \in match : i <= j]

udbGet(tbl, match, fail) ==
    LET e == checkErr(gormFirst(tbl, match, fail))
    IN  [user |-> IF e = NoErr THEN Load(FirstRow(tbl, match)) ELSE ZeroUser,
         err |-> e]

\* Mutant of udbGetByID: the first stored user, whatever the ID asked for.
udbGetByIDFirst(tbl, id, fail) ==
    udbGet(tbl, DOMAIN tbl, fail)

udbGetByID(tbl, id, fail) ==
    udbGet(tbl, {i \in DOMAIN tbl : tbl[i].ID = id}, fail)

udbGetByEmail(tbl, email, fail) ==
    udbGet(tbl, {i \in DOMAIN tbl : tbl[i].Email = email}, fail)

udbGetByRemember(tbl, hash, fail) ==
    udbGet(tbl, {i \in DOMAIN tbl : tbl[i].RememberHash = hash}, fail)

\* The unique indexes on email and remember_hash (struct tags of User).
\* Mutant of UniqueViolation: the tables have no unique index.
UniqueViolationNever(tbl, u) == FALSE

UniqueViolation(tbl, u) ==
    \E i \in DOMAIN tbl :
        /\ tbl[i].ID # u.ID
        /\ \/ tbl[i].Email = u.Email
           \/ tbl[i].RememberHash = u.RememberHash

\* gorm Create: insert under the next ID, which is written back to the record.
udbCreate(tbl, u, fail) ==
    LET withID == [u EXCEPT !.ID = Len(tbl) + 1]
        gormErr == IF fail \/ UniqueViolation(tbl, withID) THEN "other" ELSE "nil"
    IN  [users |-> IF gormErr = "nil" THEN Append(tbl, Row(withID)) ELSE tbl,
         user |-> IF gormErr = "nil" THEN withID ELSE u,
         err |-> checkErr(gormErr)]

\* Mutant of udbUpdate: Save writes the row whatever the other rows hold.
udbUpdateUnchecked(tbl, u, fail) ==
    IF u.ID = 0 THEN udbCreate(tbl, u, fail)
    ELSE [users |-> IF ~fail /\ u.ID \in DOMAIN tbl
                    THEN [tbl EXCEPT ![u.ID] = Row(u)]
                    ELSE tbl,
          user |-> u,
          err |-> checkErr(IF fail THEN "other" ELSE "nil")]

\* gorm Save: a record without primary key is inserted, otherwise every
\* column of the row with that key is written.
udbUpdate(tbl, u, fail) ==
    IF u.ID = 0 THEN udbCreate(tbl, u, fail)
    ELSE LET gormErr == IF fail \/ UniqueViolation(tbl, u) THEN "other" ELSE "nil"
         IN  [users |-> IF gormErr = "nil" /\ u.ID \in DOMAIN tbl
                        THEN [tbl EXCEPT ![u.ID] = Row(u)]
                        ELSE tbl,
              user |-> u,
              err |-> checkErr(gormErr)]

(***************************************************************************)
(* User validator (validation/users.go).  A validation function takes the  *)
(* record in flight and yields the record as it leaves it and an error.    *)
(* env carries what the functions read besides the record: the users       *)
(* table, whether the database call fails and the token                    *)
(* rand.RememberToken would return.                                        *)
(***************************************************************************)
Ok(u) == [user |-> u, err |-> NoErr]
Fail(u, msg) == [user |-> u, err |-> New(msg)]

\* Mutant of emailNormalize: trims but does not lower-case.
emailNormalizeTrimOnly(u) ==
    Ok([u EXCEPT !.Email = TrimSpace(u.Email)])

emailNormalize(u) ==
    Ok([u EXCEPT !.Email = ToLower(TrimSpace(u.Email))])

emailRequired(u) ==
    IF u.Email = <<>> THEN Fail(u, "Email address is required") ELSE Ok(u)

emailFormat(u) ==
    IF ~emailRegexMatch(u.Email) THEN Fail(u, "Email is not a valid format") ELSE Ok(u)

passwordRequired(u) ==
    IF ToLower(u.Password) = <<>> THEN Fail(u, "Password is required") ELSE Ok(u)

passwordMinLength(u) ==
    IF Len(u.Password) < MinPwLen THEN Fail(u, "Password is too short") ELSE Ok(u)

\* Mutant of passwordBcrypt: hashes but leaves the Password in the record.
passwordBcryptKeepsPassword(u) ==
    IF u.Password = <<>> THEN Ok(u)
    ELSE Ok([u EXCEPT !.PasswordHash = bcryptGenerate(u.Password \o PwPepper,
                                                      FreshSalt(u.PasswordHash))])

\* Mutant of passwordBcrypt: stores the password as it is.
passwordBcryptPlain(u) ==
    IF u.Password = <<>> THEN Ok(u)
    ELSE Ok([u EXCEPT !.PasswordHash = u.Password, !.Password = <<>>])

\* Mutant of passwordBcrypt: hashes the Password even when it is empty.
passwordBcryptAlways(u) ==
    Ok([u EXCEPT !.PasswordHash = bcryptGenerate(u.Password \o PwPepper,
                                                 FreshSalt(u.PasswordHash)),
                 !.Password = <<>>])

passwordBcrypt(u) ==
    IF u.Password = <<>> THEN Ok(u)
    ELSE Ok([u EXCEPT !.PasswordHash = bcryptGenerate(u.Password \o PwPepper,
                                                      FreshSalt(u.PasswordHash)),
                      !.Password = <<>>])

\* Mutant of passwordHashRequired: accepts an empty PasswordHash.
passwordHashNotRequired(u) == Ok(u)

passwordHashRequired(u) ==
    IF u.PasswordHash = <<>> THEN Fail(u, "Password is required") ELSE Ok(u)

setRememberToken(u, token) ==
    IF u.RememberToken # <<>> THEN Ok(u)
    ELSE Ok([u EXCEPT !.RememberToken = token])

rememberHashRequired(u) ==
    LET v == IF u.RememberToken # <<>>
             THEN [u EXCEPT !.RememberHash = hmacHash(u.RememberToken)]
             ELSE u
    IN  IF v.RememberHash = <<>> THEN Fail(v, "remember hash required") ELSE Ok(v)

isGreaterThan(u, n) ==
    IF u.ID <= n THEN Fail(u, "Invalid ID") ELSE Ok(u)

\* The chain of GetByEmail, runUserValFuncs(user, emailNormalize,
\* emailRequired, emailFormat): an error ends the loop.
thenEmailRequired(r) == IF r.err # NoErr THEN r ELSE emailRequired(r.user)

thenEmailFormat(r) == IF r.err # NoErr THEN r ELSE emailFormat(r.user)

GetByEmailChain(u) == thenEmailFormat(thenEmailRequired(emailNormalize(u)))

\* A failed validation of a lookup: nil and the marked error.
Invalid(v) == [user |-> ZeroUser, err |-> Wrap(ValidationMark, v.err)]

uvGetByIDChecked(tbl, v, fail) ==
    IF v.err # NoErr THEN Invalid(v) ELSE udbGetByID(tbl, v.user.ID, fail)

uvGetByID(tbl, id, fail) ==
    uvGetByIDChecked(tbl, isGreaterThan([ZeroUser EXCEPT !.ID = id], 0), fail)

uvGetByEmailChecked(tbl, v, fail) ==
    IF v.err # NoErr THEN Invalid(v) ELSE udbGetByEmail(tbl, v.user.Email, fail)

uvGetByEmail(tbl, email, fail) ==
    uvGetByEmailChecked(tbl, GetByEmailChain([ZeroUser EXCEPT !.Email = email]), fail)

uvGetByRememberChecked(tbl, v, fail) ==
    IF v.err # NoErr THEN Invalid(v)
    ELSE udbGetByRemember(tbl, v.user.RememberHash, fail)

uvGetByRemember(tbl, token, fail) ==
    uvGetByRememberChecked(
        tbl, rememberHashRequired([ZeroUser EXCEPT !.RememberToken = token]), fail)

\* Mutant of emailIsAvailFound: a found address counts as available.
emailIsAvailAlways(u, r) ==
    IF r.err # NoErr /\ ~ErrorsIs(r.err, ErrNotFound)
    THEN [user |-> u, err |-> r.err]
    ELSE Ok(u)

emailIsAvailFound(u, r) ==
    IF r.err # NoErr
    THEN IF ErrorsIs(r.err, ErrNotFound) THEN Ok(u)
         ELSE [user |-> u, err |-> r.err]
    ELSE Fail(u, ErrTaken)

emailIsAvail(u, env) ==
    emailIsAvailFound(u, uvGetByEmail(env.users, u.Email, env.fail))

userValFunc(fn, u, env) ==
    CASE fn = "emailNormalize" -> emailNormalize(u)
      [] fn = "emailRequired" -> emailRequired(u)
      [] fn = "emailFormat" -> emailFormat(u)
      [] fn = "emailIsAvail" -> emailIsAvail(u, env)
      [] fn = "passwordRequired" -> passwordRequired(u)
      [] fn = "passwordMinLength" -> passwordMinLength(u)
      [] fn = "passwordBcrypt" -> passwordBcrypt(u)
      [] fn = "passwordHashRequired" -> passwordHashRequired(u)
      [] fn = "setRememberToken" -> setRememberToken(u, env.token)
      [] fn = "rememberHashRequired" -> rememberHashRequired(u)

\* for _, fn := range fns: the first error ends the loop.
RECURSIVE runUserValFuncs(_, _, _)
\* Mutant of runRest: the loop goes on after a step has failed.
runRestContinues(r, fns, env) == runUserValFuncs(r.user, fns, env)

runRest(r, fns, env) ==
    IF r.err # NoErr THEN r ELSE runUserValFuncs(r.user, fns, env)

runUserValFuncs(u, fns, env) ==
    IF fns = <<>> THEN Ok(u)
    ELSE runRest(userValFunc(Head(fns), u, env), Tail(fns), env)

CreateChain ==
    <<"emailNormalize", "emailRequired", "emailFormat", "emailIsAvail",
      "passwordRequired", "passwordMinLength", "passwordBcrypt",
      "passwordHashRequired", "setRememberToken", "rememberHashRequired">>

UpdateChain ==
    <<"emailNormalize", "emailRequired", "emailFormat", "passwordBcrypt",
      "passwordHashRequired", "rememberHashRequired">>

\* userValidator.Create: the chain, then the store's Create.  wrote says
\* that the store's Create was called.
Rejected(tbl, v) ==
    [users |-> tbl, user |-> v.user, err |-> Wrap(ValidationMark, v.err),
     wrote |-> FALSE]

Written(w) == [users |-> w.users, user |-> w.user, err |-> w.err, wrote |-> TRUE]

uvCreateValidated(tbl, v, failWrite) ==
    IF v.err # NoErr THEN Rejected(tbl, v)
    ELSE Written(udbCreate(tbl, v.user, failWrite))

uvCreate(tbl, u, env, failWrite) ==
    uvCreateValidated(tbl, runUserValFuncs(u, CreateChain, env), failWrite)

\* userValidator.Update: the chain, then the store's Update.
uvUpdateValidated(tbl, v, failWrite) ==
    IF v.err # NoErr THEN Rejected(tbl, v)
    ELSE Written(udbUpdate(tbl, v.user, failWrite))

uvUpdate(tbl, u, env, failWrite) ==
    uvUpdateValidated(tbl, runUserValFuncs(u, UpdateChain, env), failWrite)

(***************************************************************************)
(* Password-reset store (pwResetDB) and validator (validation/pw_reset.go).*)
(* A row of resets is [ID, UserID, TokenHash, CreatedAt, Deleted]; Deleted *)
(* is gorm's soft delete, which hides the row from queries.                *)
(***************************************************************************)
pwrdbGetByToken(tbl, tokenHash, fail) ==
    LET match == {i \in DOMAIN tbl : tbl[i].TokenHash = tokenHash /\ ~tbl[i].Deleted}
        e == checkErr(gormFirst(tbl, match, fail))
    IN  [pwr |-> IF e = NoErr
                 THEN LET row == FirstRow(tbl, match)
                      IN  [ID |-> row.ID, UserID |-> row.UserID, Token |-> <<>>,
                           TokenHash |-> row.TokenHash, CreatedAt |-> row.CreatedAt]
                 ELSE ZeroPwReset,
         err |-> e]

pwrdbCreate(tbl, pwr, at, fail) ==
    LET dup == \E i \in DOMAIN tbl : tbl[i].TokenHash = pwr.TokenHash
        gormErr == IF fail \/ dup THEN "other" ELSE "nil"
        row == [ID |-> Len(tbl) + 1, UserID |-> pwr.UserID,
                TokenHash |-> pwr.TokenHash, CreatedAt |-> at, Deleted |-> FALSE]
    IN  [resets |-> IF gormErr = "nil" THEN Append(tbl, row) ELSE tbl,
         pwr |-> IF gormErr = "nil"
                 THEN [pwr EXCEPT !.ID = row.ID, !.CreatedAt = at]
                 ELSE pwr,
         err |-> checkErr(gormErr)]

\* Mutant of pwrdbDelete: every reset record of the same user goes with it.
pwrdbDeleteAllOfUser(tbl, id, fail) ==
    [resets |-> IF fail THEN tbl
                ELSE [i \in DOMAIN tbl |->
                        IF \E j \in DOMAIN tbl :
                               tbl[j].ID = id /\ tbl[j].UserID = tbl[i].UserID
                        THEN [tbl[i] EXCEPT !.Deleted = TRUE]
                        ELSE tbl[i]],
     err |-> checkErr(IF fail THEN "other" ELSE "nil")]

\* Mutant of pwrdbDelete: reports success and deletes nothing.
pwrdbDeleteNothing(tbl, id, fail) ==
    [resets |-> tbl, err |-> checkErr(IF fail THEN "other" ELSE "nil")]

pwrdbDelete(tbl, id, fail) ==
    LET gormErr == IF fail THEN "other" ELSE "nil"
    IN  [resets |-> IF gormErr = "nil"
                    THEN [i \in DOMAIN tbl |->
                            IF tbl[i].ID = id THEN [tbl[i] EXCEPT !.Deleted = TRUE]
                            ELSE tbl[i]]
                    ELSE tbl,
         err |-> checkErr(gormErr)]

idRequired(pwr) ==
    IF pwr.UserID <= 0 THEN [pwr |-> pwr, err |-> New("ID Invalid")]
    ELSE [pwr |-> pwr, err |-> NoErr]

tokenHashRequired(pwr) ==
    IF pwr.TokenHash = <<>>
    THEN IF pwr.Token # <<>>
         THEN [pwr |-> [pwr EXCEPT !.TokenHash = hmacHash(pwr.Token)], err |-> NoErr]
         ELSE [pwr |-> pwr, err |-> New("Remember Hash is required")]
    ELSE [pwr |-> pwr, err |-> NoErr]

pwrvGetByTokenChecked(tbl, v, fail) ==
    IF v.err # NoErr
    THEN [pwr |-> ZeroPwReset, err |-> Wrap(ValidationMark, v.err)]
    ELSE pwrdbGetByToken(tbl, v.pwr.TokenHash, fail)

pwrvGetByToken(tbl, token, fail) ==
    pwrvGetByTokenChecked(
        tbl, tokenHashRequired([ZeroPwReset EXCEPT !.Token = token]), fail)

runPwResetValFuncs(a) == IF a.err # NoErr THEN a ELSE tokenHashRequired(a.pwr)

pwrvCreateChecked(tbl, b, at, fail) ==
    IF b.err # NoErr
    THEN [resets |-> tbl, pwr |-> b.pwr, err |-> Wrap(ValidationMark, b.err)]
    ELSE pwrdbCreate(tbl, b.pwr, at, fail)

pwrvCreate(tbl, pwr, token, at, fail) ==
    pwrvCreateChecked(
        tbl, runPwResetValFuncs(idRequired([pwr EXCEPT !.Token = token])), at, fail)

pwrvDelete(tbl, id, fail) ==
    IF id <= 0 THEN [resets |-> tbl, err |-> New("Invalid ID")]
    ELSE pwrdbDelete(tbl, id, fail)

(***************************************************************************)
(* userService (Authenticate, InitiatePWReset, CompletePWReset).  Its      *)
(* UserDB is the user validator and its pwResetDB the reset validator, as  *)
(* WithUsers wires them.  Each operation is split where it branches on the *)
(* result of a call: the operator named after the method makes the call    *)
(* and hands the result to the operator holding the rest of the body.      *)
(***************************************************************************)
AuthenticateCompared(user, c) ==
    IF c = "mismatch" THEN [user |-> ZeroUser, err |-> New(ErrPWInvalid)]
    ELSE IF c # "ok" THEN [user |-> ZeroUser, err |-> New("Could not authenticate")]
    ELSE [user |-> user, err |-> NoErr]

\* Mutant of AuthenticateFound: the lookup error is formatted with %v, so
\* the chain behind it is lost.
AuthenticateFoundUnwrapped(r, password) ==
    IF r.err # NoErr
    THEN [user |-> ZeroUser, err |-> New("Could not retreive user")]
    ELSE AuthenticateCompared(
             r.user, bcryptCompare(r.user.PasswordHash, password \o PwPepper))

AuthenticateFound(r, password) ==
    IF r.err # NoErr
    THEN [user |-> ZeroUser, err |-> Wrap("Could not retreive user", r.err)]
    ELSE AuthenticateCompared(
             r.user, bcryptCompare(r.user.PasswordHash, password \o PwPepper))

Authenticate(tbl, email, password, fail) ==
    AuthenticateFound(uvGetByEmail(tbl, email, fail), password)

InitiatePWResetCreated(rtbl, c) ==
    IF c.err # NoErr
    THEN [resets |-> rtbl, token |-> <<>>, drew |-> TRUE,
          err |-> Wrap("Unable to create reset token", c.err)]
    ELSE [resets |-> c.resets, token |-> c.pwr.Token, drew |-> TRUE, err |-> NoErr]

\* Mutant of InitiatePWResetFound: the reset record is created whatever the
\* lookup of the user returned.
InitiatePWResetFoundAnyway(rtbl, r, token, at, fail) ==
    InitiatePWResetCreated(
        rtbl,
        pwrvCreate(rtbl, [ZeroPwReset EXCEPT !.UserID = r.user.ID], token, at, fail))

InitiatePWResetFound(rtbl, r, token, at, fail) ==
    IF r.err # NoErr
    THEN [resets |-> rtbl, token |-> <<>>, drew |-> FALSE,
          err |-> Wrap("Could not retreive user", r.err)]
    ELSE InitiatePWResetCreated(
             rtbl,
             pwrvCreate(rtbl, [ZeroPwReset EXCEPT !.UserID = r.user.ID], token, at,
                        fail))

\* fails is <<user lookup fails, reset-record write fails>>.
InitiatePWReset(utbl, rtbl, email, token, at, fails) ==
    InitiatePWResetFound(rtbl, uvGetByEmail(utbl, email, fails[1]), token, at,
                         fails[2])

\* Mutant of Expired: a token is rejected from the limit on.
ExpiredAtLimit(at, createdAt) == at - createdAt >= TokenValidHours

\* The expiry test of CompletePWReset, in hours.
Expired(at, createdAt) == at - createdAt > TokenValidHours

\* What CompletePWReset returns when it stops early: nothing has changed.
Stopped(utbl, rtbl, err) ==
    [users |-> utbl, resets |-> rtbl, user |-> ZeroUser, err |-> err,
     cleaned |-> FALSE]

\* Mutant of CompletePWResetDeleted: a failed Delete is returned as the
\* error of the call.
CompletePWResetDeletedSurfaces(w, d) ==
    [users |-> w.users, resets |-> d.resets,
     user |-> IF d.err # NoErr THEN ZeroUser ELSE w.user,
     err |-> IF d.err # NoErr THEN Wrap("Unable to reset password", d.err) ELSE NoErr,
     cleaned |-> d.err = NoErr]

\* After Delete: its result d is dropped and nil is returned.  cleaned keeps,
\* for observation only, whether Delete had returned nil.
CompletePWResetDeleted(w, d) ==
    [users |-> w.users, resets |-> d.resets, user |-> w.user, err |-> NoErr,
     cleaned |-> d.err = NoErr]

\* Mutant of CompletePWResetUpdated: the reset record is deleted before the
\* outcome of Update is looked at.
CompletePWResetUpdatedDeletesAnyway(utbl, rtbl, id, w, failDelete) ==
    IF w.err # NoErr
    THEN Stopped(utbl, pwrvDelete(rtbl, id, failDelete).resets,
                 Wrap("Unable to reset password", w.err))
    ELSE CompletePWResetDeleted(w, pwrvDelete(rtbl, id, failDelete))

CompletePWResetUpdated(utbl, rtbl, id, w, failDelete) ==
    IF w.err # NoErr
    THEN Stopped(utbl, rtbl, Wrap("Unable to reset password", w.err))
    ELSE CompletePWResetDeleted(w, pwrvDelete(rtbl, id, failDelete))

\* Mutant of CompletePWResetUser: the new password is not put in the record.
CompletePWResetUserKeepsPw(utbl, rtbl, id, u, newPw, fails) ==
    IF u.err # NoErr
    THEN Stopped(utbl, rtbl, Wrap("Unable to reset password", u.err))
    ELSE CompletePWResetUpdated(
             utbl, rtbl, id,
             uvUpdate(utbl, u.user,
                      [users |-> utbl, fail |-> FALSE, token |-> <<>>], fails[3]),
             fails[4])

CompletePWResetUser(utbl, rtbl, id, u, newPw, fails) ==
    IF u.err # NoErr
    THEN Stopped(utbl, rtbl, Wrap("Unable to reset password", u.err))
    ELSE CompletePWResetUpdated(
             utbl, rtbl, id,
             uvUpdate(utbl, [u.user EXCEPT !.Password = newPw],
                      [users |-> utbl, fail |-> FALSE, token |-> <<>>], fails[3]),
             fails[4])

CompletePWResetFound(utbl, rtbl, g, newPw, at, fails) ==
    IF g.err # NoErr
    THEN Stopped(utbl, rtbl, Wrap("Unble to retreive reset data", g.err))
    ELSE IF Expired(at, g.pwr.CreatedAt)
    THEN Stopped(utbl, rtbl, New(ErrExpired))
    ELSE CompletePWResetUser(utbl, rtbl, g.pwr.ID,
                             uvGetByID(utbl, g.pwr.UserID, fails[2]), newPw, fails)

\* fails is <<reset lookup, user lookup, user write, reset delete>> failing.
CompletePWReset(utbl, rtbl, token, newPw, at, fails) ==
    CompletePWResetFound(utbl, rtbl, pwrvGetByToken(rtbl, token, fails[1]), newPw,
                         at, fails)

(***************************************************************************)
(* HTTP layer: http.ResponseWriter, writeJson, the CheckUser middleware    *)
(* and the Login / Logout handlers.  A response is [status, body];         *)
(* status 0 means that no header has been written yet.                     *)
(***************************************************************************)
NoResponse == [status |-> 0, body |-> <<>>, header |-> {}]

\* Header().Set: replaces the value of key; without effect once the header
\* has been sent.
headerSet(w, key, value) ==
    IF w.status # 0 THEN w
    ELSE [w EXCEPT !.header = {h \in @ : h[1] # key} \cup {<<key, value>>}]

\* ResponseWriter.Write: the first Write sends the header with StatusOK.
rwWrite(w, data) ==
    [w EXCEPT !.status = IF @ = 0 THEN StatusOK ELSE @, !.body = @ \o data]

\* ResponseWriter.WriteHeader: ignored once a header has been sent.
rwWriteHeader(w, code) ==
    [w EXCEPT !.status = IF w.status = 0 THEN code ELSE w.status]

\* json.Marshal of a string: the string between double quotes.
jsonMarshal(data) == <<"\"">> \o data \o <<"\"">>

\* writeJson: an error is written and the function returns; any other value
\* is marshalled and written, and WriteHeader(code) is called after that.
writeJson(w, data, isError, code) ==
    IF isError
    THEN rwWrite(headerSet(w, "Content-Type", "application/json"), data)
    ELSE rwWriteHeader(rwWrite(headerSet(w, "Content-Type", "application/json"),
                               jsonMarshal(data)),
                       code)

Bearer == <<"B", "e", "a", "r", "e", "r">>

CheckUserFound(r) == [found |-> r.err = NoErr, user |-> r.user]

\* jsonAuthMW.CheckUser: the user put in the request context, if any.
CheckUser(tbl, header, fail) ==
    IF Len(header) < Len(Bearer) THEN [found |-> FALSE, user |-> ZeroUser]
    ELSE CheckUserFound(
             uvGetByRemember(
                 tbl, TrimSpace(SubSeq(header, Len(Bearer) + 1, Len(header))), fail))

\* mailService.ResetPw: the message is handed to the mail provider, which
\* may refuse it.
ResetPw(toEmail, token, fail) ==
    IF fail THEN Wrap("Mailgun Error, could not send", New("mail provider error"))
    ELSE NoErr

ForgotMailed(i, err) ==
    [resets |-> i.resets, token |-> i.token, err |-> err,
     mail |-> IF err # NoErr THEN "failed" ELSE "sent",
     resp |-> IF err # NoErr THEN writeJson(NoResponse, err, TRUE, StatusBadRequest)
              ELSE rwWriteHeader(NoResponse, StatusOK)]

\* Mutant of ForgotInitiated: a mail that could not be sent takes the reset
\* record back.
ForgotInitiatedRollsBack(rtbl, i, email, mailFails) ==
    IF i.err # NoErr \/ mailFails
    THEN [resets |-> rtbl, token |-> <<>>, err |-> IF i.err # NoErr THEN i.err ELSE ResetPw(email, i.token, TRUE),
          mail |-> IF i.err # NoErr THEN "none" ELSE "failed",
          resp |-> writeJson(NoResponse, i.err, TRUE, StatusBadRequest)]
    ELSE ForgotMailed(i, ResetPw(email, i.token, mailFails))

ForgotInitiated(rtbl, i, email, mailFails) ==
    IF i.err # NoErr
    THEN [resets |-> rtbl, token |-> <<>>, err |-> i.err, mail |-> "none",
          resp |-> writeJson(NoResponse, i.err, TRUE, StatusBadRequest)]
    ELSE ForgotMailed(i, ResetPw(email, i.token, mailFails))

\* userHandler.Forgot.  decoded says that the request body is a JSON string;
\* fails is <<user lookup fails, reset-record write fails>>.
Forgot(utbl, rtbl, decoded, email, token, at, fails, mailFails) ==
    IF ~decoded
    THEN [resets |-> rtbl, token |-> <<>>, err |-> New("invalid request body"),
          mail |-> "none",
          resp |-> writeJson(NoResponse, New("invalid request body"), TRUE,
                             StatusUnprocessableEntity)]
    ELSE ForgotInitiated(rtbl, InitiatePWReset(utbl, rtbl, email, token, at, fails),
                         email, mailFails)

\* authMW.CheckUser: the user of the rememberToken cookie, if there is one.
authCheckUser(tbl, cookie, fail) ==
    IF cookie = <<>> THEN [found |-> FALSE, user |-> ZeroUser]
    ELSE CheckUserFound(uvGetByRemember(tbl, cookie, fail))

\* context.GetUser: the user held by the request context, or nil.
GetUser(ctx) == [nil |-> ~ctx.found, user |-> IF ctx.found THEN ctx.user ELSE ZeroUser]

\* http.Redirect on a request that is not GET or HEAD: the Location header
\* and the status are sent, no body.
httpRedirect(w, code) == rwWriteHeader(headerSet(w, "Location", "/login"), code)

\* The handler wrapped by RequireUser has run once more.
next(m) == [m EXCEPT !.calls = @ + 1]

\* authMW.RequireUser: redirects when the context has no user, and calls
\* the wrapped handler in either case (there is no return after Redirect).
authRequireUserGot(u, m) ==
    IF u.nil THEN next([m EXCEPT !.resp = httpRedirect(m.resp, StatusUnauthorized)])
    ELSE next(m)

authRequireUser(ctx, m) == authRequireUserGot(GetUser(ctx), m)

\* jsonAuthMW.RequireUser: StatusUnauthorized and return when the context
\* has no user, else the wrapped handler.
jsonRequireUserGot(u, m) ==
    IF u.nil THEN [m EXCEPT !.resp = rwWriteHeader(m.resp, StatusUnauthorized)]
    ELSE next(m)

jsonRequireUser(ctx, m) == jsonRequireUserGot(GetUser(ctx), m)

\* A request to a route behind CheckUser and RequireUser of middleware mw.
\* credential is the cookie value (authMW) or the bearer token (jsonAuthMW).
Served(ctx, m) ==
    [err |-> NoErr, user |-> ctx.user, wrote |-> FALSE, resp |-> m.resp,
     cleaned |-> FALSE, calls |-> m.calls, mail |-> "none"]

NoCalls == [resp |-> NoResponse, calls |-> 0]

authServe(ctx) == Served(ctx, authRequireUser(ctx, NoCalls))

jsonServe(ctx) == Served(ctx, jsonRequireUser(ctx, NoCalls))

RequireUser(mw, tbl, credential, fail) ==
    IF mw = "authMW"
    THEN authServe(authCheckUser(tbl, credential, fail))
    ELSE jsonServe(CheckUser(tbl, IF credential = <<>> THEN <<>>
                                  ELSE Bearer \o <<" ">> \o credential, fail))

loginUpdated(w) ==
    [users |-> w.users, user |-> w.user, drew |-> TRUE,
     err |-> IF w.err # NoErr THEN Wrap("Could not login", w.err) ELSE NoErr]

\* userHandler.login: issue a remember token and store its hash.
login(tbl, u, token, failWrite) ==
    IF u.RememberToken = <<>>
    THEN loginUpdated(uvUpdate(tbl, [u EXCEPT !.RememberToken = token],
                               [users |-> tbl, fail |-> FALSE, token |-> <<>>],
                               failWrite))
    ELSE [users |-> tbl, user |-> u, drew |-> FALSE, err |-> NoErr]

\* The response after w.Header().Set("WWW-Authenticate", ...).
Challenge ==
    headerSet(NoResponse, "WWW-Authenticate", "Basic realm=\"Access to goafweb\"")

LoginIssued(l) ==
    [users |-> l.users, drew |-> l.drew, user |-> l.user, err |-> l.err,
     resp |-> IF l.err # NoErr
              THEN writeJson(NoResponse, l.err, TRUE, StatusInternalServerError)
              ELSE writeJson(NoResponse, l.user.RememberToken, FALSE, StatusOK)]

\* Mutant of LoginAuthenticated: the handler answers with the error that
\* Authenticate returned.
LoginAuthenticatedUnmasked(tbl, a, token, failWrite) ==
    IF a.err # NoErr
    THEN [users |-> tbl, drew |-> FALSE, user |-> ZeroUser, err |-> a.err,
          resp |-> writeJson(Challenge, a.err, TRUE, StatusUnauthorized)]
    ELSE LoginIssued(login(tbl, a.user, token, failWrite))

LoginAuthenticated(tbl, a, token, failWrite) ==
    IF a.err # NoErr
    THEN [users |-> tbl, drew |-> FALSE, user |-> ZeroUser, err |-> a.err,
          resp |-> IF ErrorsIs(a.err, ErrNotFound) \/ ErrorsIs(a.err, ErrPWInvalid)
                   THEN writeJson(Challenge, New(ErrAuth), TRUE, StatusUnauthorized)
                   ELSE writeJson(Challenge, a.err, TRUE, StatusUnauthorized)]
    ELSE LoginIssued(login(tbl, a.user, token, failWrite))

\* userHandler.Login.  fails is <<user lookup fails, user write fails>>.
Login(tbl, hasAuth, email, password, token, fails) ==
    IF ~hasAuth
    THEN [users |-> tbl, drew |-> FALSE, user |-> ZeroUser,
          err |-> New("Please provide authentication details"),
          resp |-> writeJson(Challenge, <<"Please provide authentication details">>,
                             FALSE, StatusUnauthorized)]
    ELSE LoginAuthenticated(tbl, Authenticate(tbl, email, password, fails[1]), token,
                            fails[2])

LogoutUpdated(w) ==
    [users |-> w.users, found |-> TRUE, user |-> w.user, err |-> w.err,
     resp |-> IF w.err # NoErr
              THEN writeJson(NoResponse, w.err, TRUE, StatusBadRequest)
              ELSE rwWriteHeader(NoResponse, StatusOK)]

\* Mutant of LogoutChecked: the record is updated without the fresh token.
LogoutCheckedNoRotation(tbl, c, token, failWrite) ==
    IF ~c.found
    THEN [users |-> tbl, found |-> FALSE, user |-> ZeroUser, err |-> New("panic"),
          resp |-> NoResponse]
    ELSE LogoutUpdated(uvUpdate(tbl, c.user,
                                [users |-> tbl, fail |-> FALSE, token |-> <<>>],
                                failWrite))

\* Without a user in the context the handler dereferences nil and panics:
\* no response, nothing written.
LogoutChecked(tbl, c, token, failWrite) ==
    IF ~c.found
    THEN [users |-> tbl, found |-> FALSE, user |-> ZeroUser, err |-> New("panic"),
          resp |-> NoResponse]
    ELSE LogoutUpdated(uvUpdate(tbl, [c.user EXCEPT !.RememberToken = token],
                                [users |-> tbl, fail |-> FALSE, token |-> <<>>],
                                failWrite))

\* userHandler.Logout behind CheckUser.  fails is <<lookup, write>> failing.
Logout(tbl, header, token, fails) ==
    LogoutChecked(tbl, CheckUser(tbl, header, fails[1]), token, fails[2])

(***************************************************************************)
(* Inputs of the operations.                                               *)
(***************************************************************************)
EmailFooRaw == <<" ", "F", "o", "o", "@", "B", "a", "r", ".", "C", "O", "M", " ">>
EmailFoo == <<"f", "o", "o", "@", "b", "a", "r", ".", "c", "o", "m">>
EmailAb == <<"a", "@", "b", ".", "i", "o">>
EmailShortTld == <<"a", "@", "b", ".", "c">>
EmailBlank == <<" ", "\t">>
EmailInputs == {EmailFooRaw, EmailFoo, EmailAb, EmailShortTld, EmailBlank}

PwOld == <<"p", "a", "s", "s", "w", "o", "r", "d">>
PwNew == <<"h", "u", "n", "t", "e", "r", "2", "2">>
PwShort == <<"1", "2", "3", "4", "5", "6", "7">>
PwInputs == {PwOld, PwNew, PwShort, <<>>}

\* The tokens the entropy source has produced so far.
IssuedTokens == {RememberToken(n) : n \in 1..(nextToken - 1)}
TokenInputs == IssuedTokens \cup {<<>>}

\* Whether a database call may fail: only in the faulty specification.
FailChoices == IF faulty THEN BOOLEAN ELSE {FALSE}

\* The records callers hand to Update: a stored record as read from the
\* database with some field edited, or a record that never was stored.
Edits(b) ==
    {b}
    \cup {[b EXCEPT !.Email = e] : e \in {EmailFooRaw, EmailAb, EmailShortTld}}
    \cup {[b EXCEPT !.Password = p] : p \in {PwNew, PwShort}}
    \cup {[b EXCEPT !.PasswordHash = <<>>],
          [b EXCEPT !.RememberHash = <<>>],
          [b EXCEPT !.PasswordHash = <<>>, !.Password = PwNew]}

UpdateInputs ==
    UNION {Edits(Load(users[i])) : i \in DOMAIN users}
    \cup {[ZeroUser EXCEPT !.Email = EmailAb, !.Password = p, !.RememberToken = t] :
            p \in {PwNew, <<>>}, t \in {RememberToken(nextToken), <<>>}}

(***************************************************************************)
(* The call in progress: last holds the operation that has just run, its   *)
(* inputs and what it returned, until the caller has taken the result      *)
(* (Return).  Operations run one at a time.                                *)
(***************************************************************************)
Result(op, email, password, token, r) ==
    [op |-> op, email |-> email, password |-> password, token |-> token,
     err |-> r.err, user |-> r.user, wrote |-> r.wrote, resp |-> r.resp,
     cleaned |-> r.cleaned, calls |-> r.calls, mail |-> r.mail]

NoExtras ==
    [wrote |-> FALSE, resp |-> NoResponse, cleaned |-> FALSE, calls |-> 0,
     mail |-> "none"]

NoResult == [err |-> NoErr, user |-> ZeroUser] @@ NoExtras

Idle == Result("Idle", <<>>, <<>>, <<>>, NoResult)

\* Two callers (requests served by two goroutines), each at rest or inside
\* one call: the call, its inputs, the values it holds and its result.
Procs == {"p1", "p2"}

IdleProc ==
    [pc |-> "idle", op |-> "none", email |-> <<>>, token |-> <<>>, password |-> <<>>,
     pwr |-> ZeroPwReset, user |-> ZeroUser, err |-> NoErr]

Init ==
    /\ users = <<>>
    /\ resets = <<>>
    /\ now = 0
    /\ nextToken = 1
    /\ faulty = FALSE
    /\ last = Idle
    /\ used = {}
    /\ procs = [p \in Procs |-> IdleProc]

InitFaulty ==
    /\ users = <<>>
    /\ resets = <<>>
    /\ now = 0
    /\ nextToken = 1
    /\ faulty = TRUE
    /\ last = Idle
    /\ used = {}
    /\ procs = [p \in Procs |-> IdleProc]

Drawn(drew) == IF drew THEN nextToken + 1 ELSE nextToken

\* userValidator.Create(&User{Email, Password}).
CreateWithin(maxTokens) ==
    \E email \in EmailInputs, password \in PwInputs,
       f1 \in FailChoices, f2 \in FailChoices :
        LET env == [users |-> users, fail |-> f1, token |-> RememberToken(nextToken)]
            r == uvCreate(users,
                          [ZeroUser EXCEPT !.Email = email, !.Password = password],
                          env, f2)
        IN  /\ last = Idle
            /\ nextToken <= maxTokens
            /\ Len(r.users) <= MaxUsers
            /\ users' = r.users
            /\ nextToken' = Drawn(r.err = NoErr)
            /\ last' = Result("Create", email, password, <<>>,
                              r @@ NoExtras)
            /\ UNCHANGED <<resets, now, faulty, procs, used>>

Create == CreateWithin(MaxTokens)

\* userValidator.Update(user).
Update ==
    \E u \in UpdateInputs, f2 \in FailChoices :
        LET env == [users |-> users, fail |-> FALSE, token |-> <<>>]
            r == uvUpdate(users, u, env, f2)
        IN  /\ last = Idle
            /\ u.RememberToken # <<>> => nextToken <= MaxTokens
            /\ Len(r.users) <= MaxUsers
            /\ users' = r.users
            /\ nextToken' = Drawn(r.err = NoErr /\ u.RememberToken # <<>>)
            /\ last' = Result("Update", u.Email, u.Password, u.RememberToken,
                              [r EXCEPT !.user = [@ EXCEPT !.ID = u.ID]]
                              @@ NoExtras)
            /\ UNCHANGED <<resets, now, faulty, procs, used>>

\* userValidator.GetByEmail(email).
GetByEmailCall ==
    \E email \in EmailInputs, f1 \in FailChoices :
        LET r == uvGetByEmail(users, email, f1)
        IN  /\ last = Idle
            /\ last' = Result("GetByEmail", email, <<>>, <<>>, r @@ NoExtras)
            /\ UNCHANGED <<users, resets, now, nextToken, faulty, procs, used>>

\* userService.Authenticate(email, password).
AuthenticateCall ==
    \E email \in EmailInputs, password \in PwInputs, f1 \in FailChoices :
        LET r == Authenticate(users, email, password, f1)
        IN  /\ last = Idle
            /\ last' = Result("Authenticate", email, password, <<>>, r @@ NoExtras)
            /\ UNCHANGED <<users, resets, now, nextToken, faulty, procs, used>>

\* userService.InitiatePWReset(email).
InitiatePWResetCallWithin(maxTokens, maxResets) ==
    \E email \in EmailInputs, f1 \in FailChoices, f2 \in FailChoices :
        LET r == InitiatePWReset(users, resets, email, RememberToken(nextToken),
                                 now, <<f1, f2>>)
        IN  /\ last = Idle
            /\ nextToken <= maxTokens
            /\ Len(r.resets) <= maxResets
            /\ resets' = r.resets
            /\ nextToken' = Drawn(r.err = NoErr)
            /\ last' = Result("InitiatePWReset", email, <<>>, r.token,
                              [err |-> r.err, user |-> ZeroUser] @@ NoExtras)
            /\ UNCHANGED <<users, now, faulty, procs, used>>

InitiatePWResetCall == InitiatePWResetCallWithin(MaxTokens, MaxResets)

\* userService.CompletePWReset(token, newPw).
CompletePWResetCall ==
    \E token \in TokenInputs, newPw \in PwInputs,
       f1 \in FailChoices, f2 \in FailChoices, f3 \in FailChoices, f4 \in FailChoices :
        LET r == CompletePWReset(users, resets, token, newPw, now, <<f1, f2, f3, f4>>)
        IN  /\ last = Idle
            /\ users' = r.users
            /\ resets' = r.resets
            /\ last' = Result("CompletePWReset", <<>>, newPw, token,
                              [err |-> r.err, user |-> r.user,
                               cleaned |-> r.cleaned] @@ NoExtras)
            /\ used' = IF r.err = NoErr THEN used \cup {token} ELSE used
            /\ UNCHANGED <<now, nextToken, faulty, procs>>

\* POST /login with (or without) a Basic Authorization header.
LoginRequest ==
    \E hasAuth \in BOOLEAN, f1 \in FailChoices, f2 \in FailChoices :
        \E email \in IF hasAuth THEN EmailInputs ELSE {<<>>},
           password \in IF hasAuth THEN PwInputs ELSE {<<>>} :
        LET r == Login(users, hasAuth, email, password, RememberToken(nextToken),
                       <<f1, f2>>)
        IN  /\ last = Idle
            /\ nextToken <= MaxTokens
            /\ users' = r.users
            /\ nextToken' = Drawn(r.drew /\ r.err = NoErr)
            /\ last' = Result("Login", email, password, <<>>,
                              r @@ [wrote |-> r.drew] @@ NoExtras)
            /\ UNCHANGED <<resets, now, faulty, procs, used>>

\* GET /logout with an Authorization header carrying a token (or none).
LogoutRequest ==
    \E token \in TokenInputs, f1 \in FailChoices, f2 \in FailChoices :
        LET header == IF token = <<>> THEN <<>> ELSE Bearer \o <<" ">> \o token
            r == Logout(users, header, RememberToken(nextToken), <<f1, f2>>)
        IN  /\ last = Idle
            /\ nextToken <= MaxTokens
            /\ users' = r.users
            /\ nextToken' = Drawn(r.err = NoErr)
            /\ last' = Result("Logout", <<>>, <<>>, token,
                              r @@ [wrote |-> r.found] @@ NoExtras)
            /\ UNCHANGED <<resets, now, faulty, procs, used>>

\* POST /forgot with an email as body (or a body that does not decode).
ForgotRequest ==
    \E decoded \in BOOLEAN, mailFails \in BOOLEAN,
       f1 \in FailChoices, f2 \in FailChoices :
        \E email \in IF decoded THEN EmailInputs ELSE {<<>>} :
        LET r == Forgot(users, resets, decoded, email, RememberToken(nextToken), now,
                        <<f1, f2>>, mailFails)
        IN  /\ last = Idle
            /\ nextToken <= MaxTokens
            /\ Len(r.resets) <= MaxResets
            /\ resets' = r.resets
            /\ nextToken' = Drawn(r.mail # "none")
            /\ last' = Result("Forgot", email, <<>>, r.token,
                              r @@ [user |-> ZeroUser] @@ NoExtras)
            /\ UNCHANGED <<users, now, faulty, procs, used>>

\* A request to a route wrapped in RequireUser, behind CheckUser.
RequireUserRequest ==
    \E mw \in {"authMW", "jsonAuthMW"}, token \in TokenInputs, f \in FailChoices :
        /\ last = Idle
        /\ last' = Result(mw, <<>>, <<>>, token, RequireUser(mw, users, token, f))
        /\ UNCHANGED <<users, resets, now, nextToken, faulty, procs, used>>

\* The caller takes the result of the call.
Return ==
    /\ last # Idle
    /\ last' = Idle
    /\ UNCHANGED <<users, resets, now, nextToken, faulty, procs, used>>

\* Time passes, by the validity of a reset token (hours).  The clock is only
\* read against the CreatedAt of a reset row, so it starts with the first row.
Tick ==
    /\ last = Idle
    /\ resets # <<>>
    /\ now + TokenValidHours <= MaxTime
    /\ now' = now + TokenValidHours
    /\ UNCHANGED <<users, resets, nextToken, faulty, procs, last, used>>

Next ==
    \/ Create
    \/ Update
    \/ GetByEmailCall
    \/ AuthenticateCall
    \/ InitiatePWResetCall
    \/ CompletePWResetCall
    \/ LoginRequest
    \/ LogoutRequest
    \/ ForgotRequest
    \/ RequireUserRequest
    \/ Return
    \/ Tick

Spec == Init /\ [][Next]_vars

SpecFaulty == InitFaulty /\ [][Next]_vars

\* The password-reset flow on its own: users sign up, ask for reset tokens
\* and redeem them, with room for several tokens per user.
NextResets ==
    \/ CreateWithin(MaxResetTokens)
    \/ InitiatePWResetCallWithin(MaxResetTokens, MaxOpenResets)
    \/ CompletePWResetCall
    \/ Return
    \/ Tick

SpecResets == Init /\ [][NextResets]_vars

(***************************************************************************)
(* Concurrent calls.  A call of CompletePWReset or of the validator's      *)
(* Create is run by a caller p one storage call at a time, and the steps   *)
(* of the two callers interleave: the code takes no lock and opens no      *)
(* transaction around them.                                                *)
(***************************************************************************)
Done(q, err) == [q EXCEPT !.pc = "done", !.err = err]

\* CompletePWReset up to and including the expiry check, given the result g
\* of pwResetDB.GetByToken.
ResetLookedUp(q, g) ==
    IF g.err # NoErr THEN Done(q, Wrap("Unble to retreive reset data", g.err))
    ELSE IF Expired(now, g.pwr.CreatedAt) THEN Done(q, New(ErrExpired))
    ELSE [q EXCEPT !.pc = "getuser", !.pwr = g.pwr]

ResetGotUser(q, u) ==
    IF u.err # NoErr THEN Done(q, Wrap("Unable to reset password", u.err))
    ELSE [q EXCEPT !.pc = "update", !.user = [u.user EXCEPT !.Password = q.password]]

ResetUpdated(q, w) ==
    IF w.err # NoErr THEN Done(q, Wrap("Unable to reset password", w.err))
    ELSE [q EXCEPT !.pc = "delete", !.user = w.user]

\* One step of CompletePWReset(token, newPw) run by caller p.
CompletePWResetStep(p) ==
    /\ last = Idle
    /\ \/ /\ procs[p].pc = "idle"
          /\ \E token \in IssuedTokens, newPw \in {PwOld, PwNew} :
                 procs' = [procs EXCEPT ![p] =
                     ResetLookedUp([IdleProc EXCEPT !.op = "CompletePWReset",
                                                    !.token = token,
                                                    !.password = newPw],
                                   pwrvGetByToken(resets, token, FALSE))]
          /\ UNCHANGED <<users, resets>>
       \/ /\ procs[p].op = "CompletePWReset"
          /\ procs[p].pc = "getuser"
          /\ procs' = [procs EXCEPT ![p] =
                 ResetGotUser(@, uvGetByID(users, procs[p].pwr.UserID, FALSE))]
          /\ UNCHANGED <<users, resets>>
       \/ /\ procs[p].op = "CompletePWReset"
          /\ procs[p].pc = "update"
          /\ users' = uvUpdate(users, procs[p].user,
                               [users |-> users, fail |-> FALSE, token |-> <<>>],
                               FALSE).users
          /\ procs' = [procs EXCEPT ![p] =
                 ResetUpdated(@, uvUpdate(users, procs[p].user,
                                          [users |-> users, fail |-> FALSE,
                                           token |-> <<>>], FALSE))]
          /\ UNCHANGED resets
       \/ /\ procs[p].op = "CompletePWReset"
          /\ procs[p].pc = "delete"
          /\ resets' = pwrvDelete(resets, procs[p].pwr.ID, FALSE).resets
          /\ procs' = [procs EXCEPT ![p] = Done(@, NoErr)]
          /\ UNCHANGED users
    /\ UNCHANGED <<now, nextToken, faulty, last, used>>

CreateValidated(q, v) ==
    IF v.err # NoErr THEN Done(q, Wrap(ValidationMark, v.err))
    ELSE [q EXCEPT !.pc = "write", !.user = v.user]

\* One step of the validator's Create run by caller p: the rule chain (with
\* the availability lookup), then the store's Create.
CreateStep(p) ==
    /\ last = Idle
    /\ \/ /\ procs[p].pc = "idle"
          /\ nextToken <= MaxTokens
          /\ \E email \in {EmailFooRaw, EmailFoo}, password \in {PwOld, PwNew} :
                 procs' = [procs EXCEPT ![p] =
                     CreateValidated(
                         [IdleProc EXCEPT !.op = "Create", !.email = email,
                                          !.password = password],
                         runUserValFuncs(
                             [ZeroUser EXCEPT !.Email = email, !.Password = password],
                             CreateChain,
                             [users |-> users, fail |-> FALSE,
                              token |-> RememberToken(nextToken)]))]
          /\ nextToken' = Drawn(procs'[p].pc = "write")
          /\ UNCHANGED users
       \/ /\ procs[p].op = "Create"
          /\ procs[p].pc = "write"
          /\ Len(users) < MaxUsers
          /\ users' = udbCreate(users, procs[p].user, FALSE).users
          /\ procs' = [procs EXCEPT ![p] =
                 Done([@ EXCEPT !.user = udbCreate(users, procs[p].user, FALSE).user],
                      udbCreate(users, procs[p].user, FALSE).err)]
          /\ UNCHANGED nextToken
    /\ UNCHANGED <<resets, now, faulty, last, used>>

\* The caller takes the result; the goroutine is free for another call.
Collect(p) ==
    /\ procs[p].pc = "done"
    /\ procs' = [procs EXCEPT ![p] = IdleProc]
    /\ UNCHANGED <<users, resets, now, nextToken, faulty, last, used>>

NextConcurrent ==
    \/ Create
    \/ InitiatePWResetCall
    \/ Return
    \/ \E p \in Procs : CompletePWResetStep(p)
    \/ \E p \in Procs : CreateStep(p)
    \/ \E p \in Procs : Collect(p)

SpecConcurrent == Init /\ [][NextConcurrent]_vars

(***************************************************************************)
(* Properties.  In a state with last.op = "X" the call X has just run on   *)
(* the store: a read-only call leaves users and resets as they were, so    *)
(* the state shows the store the call ran on; a step into such a state     *)
(* started from the store before the call.                                 *)
(***************************************************************************)
\* Normalization as the specification words it: trim, then lower-case.
Normalized(e) == ToLower(TrimSpace(e))

\* The rows of the users table stored under the normalization of e.
StoredUnder(tbl, e) == {i \in DOMAIN tbl : tbl[i].Email = Normalized(e)}

\* A normalized address the validator accepts.
WellFormed(e) == e # <<>> /\ emailRegexMatch(e)

\* C1: when Create(E, P) of the validator has succeeded, the stored
\* PasswordHash differs from P, and Authenticate(E, P) on the store it left
\* succeeds and returns the stored user.
C1_CreateThenAuthenticate ==
    (last.op = "Create" /\ last.err = NoErr) =>
        /\ Len(last.password) >= MinPwLen
        /\ last.user.ID \in DOMAIN users
        /\ users[last.user.ID].PasswordHash # last.password
        /\ Authenticate(users, last.email, last.password, FALSE) =
               [user |-> Load(users[last.user.ID]), err |-> NoErr]
        /\ users[last.user.ID].Email = Normalized(last.email)

C1_Witness ==
    /\ last.op = "Create"
    /\ last.err = NoErr
    /\ last.email = EmailAb
    /\ last.password = PwNew
    /\ Authenticate(users, EmailAb, PwNew, FALSE).user.ID = last.user.ID

\* C2: a Create whose email normalizes to the email of a stored user fails
\* with the validation error "That email address is already taken", calls
\* no write and leaves the table as it was, with one user under that email.
C2_DuplicateCreateFails ==
    [][(last'.op = "Create" /\ StoredUnder(users, last'.email) # {}) =>
          /\ last'.err = <<ValidationMark, ErrTaken>>
          /\ ~last'.wrote
          /\ users' = users
          /\ Cardinality(StoredUnder(users', last'.email)) = 1]_vars

C2_Witness ==
    /\ last.op = "Create"
    /\ last.email = EmailFooRaw
    /\ last.err = <<ValidationMark, ErrTaken>>
    /\ StoredUnder(users, EmailFooRaw) # {}

\* What Authenticate compares: the stored hash against password + pepper.
PasswordMatches(row, password) ==
    bcryptCompare(row.PasswordHash, password \o PwPepper) = "ok"

\* C3 (as stated): Authenticate returns the user and no error when the
\* email is stored and the password matches, an error wrapping ErrNotFound
\* when no user has the email, and ErrPWInvalid when the email is stored
\* and the password does not match.
C3_AsStated ==
    last.op = "Authenticate" =>
        IF StoredUnder(users, last.email) = {}
        THEN ErrorsIs(last.err, ErrNotFound)
        ELSE \A i \in StoredUnder(users, last.email) :
                IF PasswordMatches(users[i], last.password)
                THEN last.err = NoErr /\ last.user = Load(users[i])
                ELSE last.err = <<ErrPWInvalid>>

\* C3 (amended): as stated, except that an email which is empty or
\* malformed once normalized is rejected by the validator before any
\* lookup: the error then carries the validation mark and does not wrap
\* ErrNotFound.  ErrNotFound is wrapped when the email is well-formed and
\* no user has it.
C3_AuthenticateOutcomes ==
    last.op = "Authenticate" =>
        IF ~WellFormed(Normalized(last.email))
        THEN /\ Len(last.err) > 2
             /\ last.err[2] = ValidationMark
             /\ ~ErrorsIs(last.err, ErrNotFound)
             /\ ~ErrorsIs(last.err, ErrPWInvalid)
        ELSE IF StoredUnder(users, last.email) = {}
        THEN ErrorsIs(last.err, ErrNotFound)
        ELSE \A i \in StoredUnder(users, last.email) :
                IF PasswordMatches(users[i], last.password)
                THEN last.err = NoErr /\ last.user = Load(users[i])
                ELSE last.err = <<ErrPWInvalid>>

C3_Witness ==
    /\ last.op = "Authenticate"
    /\ last.email = EmailShortTld
    /\ users # <<>>
    /\ last.err = <<"Could not retreive user", ValidationMark,
                    "Email is not a valid format">>

\* The table without its newest row: the store as it was before that user
\* signed up.
WithoutNewest(tbl) == SubSeq(tbl, 1, Len(tbl) - 1)

\* C4 (as stated): the outcome of Authenticate(E, wrong password) does not
\* tell whether E exists: it is the outcome Authenticate gives on the store
\* that differs only in not having the user with email E.
C4_NoEnumeration ==
    (/\ last.op = "Authenticate"
     /\ users # <<>>
     /\ users[Len(users)].Email = Normalized(last.email)
     /\ ~PasswordMatches(users[Len(users)], last.password)) =>
        last.err = Authenticate(WithoutNewest(users), last.email, last.password,
                                FALSE).err

\* The reset rows a token opens: its hash is stored and the row is not
\* deleted.
LiveResets(tbl, token) ==
    {i \in DOMAIN tbl : tbl[i].TokenHash = hmacHash(token) /\ ~tbl[i].Deleted}

\* The passwords that authenticate email e against the table.
Authenticating(tbl, e) ==
    {p \in PwInputs : Authenticate(tbl, e, p, FALSE).err = NoErr}

\* C5: CompletePWReset with the token InitiatePWReset returned, before it
\* has expired, and a new non-empty password P2 succeeds; afterwards the
\* user's email authenticates with P2 and no longer with the old password.
C5_ResetChangesPassword ==
    [][\A i \in LiveResets(resets, last'.token) :
          (/\ last'.op = "CompletePWReset"
           /\ last'.token # <<>>
           /\ now - resets[i].CreatedAt <= TokenValidHours
           /\ last'.password # <<>>
           /\ last'.password \notin Authenticating(users, users[resets[i].UserID].Email))
          =>
          /\ last'.err = NoErr
          /\ last'.user.ID = resets[i].UserID
          /\ Authenticating(users', users[resets[i].UserID].Email) = {last'.password}
          /\ Authenticating(users, users[resets[i].UserID].Email) # {}]_vars

C5_Witness ==
    /\ last.op = "CompletePWReset"
    /\ last.err = NoErr
    /\ last.password = PwNew
    /\ last.token \in used
    /\ Authenticating(users, last.user.Email) = {PwNew}

\* The reset rows, deleted or not, that hold the hash of a token.
ResetsOf(token) == {i \in DOMAIN resets : resets[i].TokenHash = hmacHash(token)}

\* C6: CompletePWReset with the token of a reset record that is not
\* deleted and older than 12 hours fails with "Token no longer valid"; with
\* a record of 12 hours or less it does not fail with that error.
C6_ExpiryIsStrict ==
    last.op = "CompletePWReset" =>
        \A i \in ResetsOf(last.token) :
            /\ (now - resets[i].CreatedAt > TokenValidHours /\ ~resets[i].Deleted)
                   => last.err = <<ErrExpired>>
            /\ now - resets[i].CreatedAt <= TokenValidHours
                   => last.err # <<ErrExpired>>

C6_Witness ==
    /\ last.op = "CompletePWReset"
    /\ last.err = <<ErrExpired>>
    /\ \E i \in ResetsOf(last.token) :
           now - resets[i].CreatedAt > TokenValidHours /\ ~resets[i].Deleted

C8_NormalizedLookup ==
    /\ last = Idle =>
           \A e \in EmailInputs :
               /\ Normalized(Normalized(e)) = Normalized(e)
               /\ emailNormalize([ZeroUser EXCEPT !.Email = e]).user.Email
                      = Normalized(e)
               /\ \A i \in StoredUnder(users, e) :
                      uvGetByEmail(users, e, FALSE) =
                          [user |-> Load(users[i]), err |-> NoErr]
    /\ Normalized(EmailFooRaw) = EmailFoo
    /\ (last.op = "Create" /\ last.err = NoErr) =>
           users[last.user.ID].Email = Normalized(last.email)
    /\ (last.op = "GetByEmail" /\ ~faulty) =>
           \A i \in StoredUnder(users, last.email) :
               last.err = NoErr /\ last.user = Load(users[i])

C8_Witness ==
    /\ last.op = "GetByEmail"
    /\ last.email = EmailFooRaw
    /\ last.err = NoErr
    /\ last.user.Email = EmailFoo
    /\ uvGetByEmail(users, EmailFoo, FALSE).user = last.user

\* C9: an Update that is called with an empty Password (by a caller, or by
\* login and Logout, which update a record read from the store) leaves the
\* PasswordHash of every stored user as it was.
C9_UpdateKeepsHash ==
    [][(\/ last'.op = "Update" /\ last'.password = <<>>
        \/ last'.op \in {"Login", "Logout"}) =>
          /\ Len(users') >= Len(users)
          /\ \A i \in DOMAIN users :
                 users'[i].PasswordHash = users[i].PasswordHash]_vars

C9_Witness ==
    /\ last.op = "Update"
    /\ last.password = <<>>
    /\ last.err = NoErr
    /\ last.wrote
    /\ last.email = EmailFooRaw
    /\ last.user.ID \in DOMAIN users
    /\ users[last.user.ID].Email = EmailFoo
    /\ bcryptWellFormed(users[last.user.ID].PasswordHash)

\* C10: every stored user has a non-empty PasswordHash and a non-empty
\* RememberHash.
C10_HashesNonEmpty ==
    \A i \in DOMAIN users :
        /\ users[i].PasswordHash # <<>>
        /\ users[i].RememberHash # <<>>

C10_Witness ==
    /\ last.op = "Update"
    /\ last.err = <<ValidationMark, "Password is required">>
    /\ ~last.wrote
    /\ last.user.ID \in DOMAIN users
    /\ last.user.PasswordHash = <<>>

\* C11 (as stated): when Create or Update of the validator returns without
\* error, the Password and the RememberToken of the record are both empty.
C11_AsStated ==
    (last.op \in {"Create", "Update"} /\ last.err = NoErr) =>
        /\ last.user.Password = <<>>
        /\ last.user.RememberToken = <<>>

\* C11 (amended): when Create or Update returns without error the Password
\* of the record is empty, but its RememberToken is not cleared: after
\* Create it is the token just generated, after Update the token the record
\* came in with, and the stored RememberHash is the hash of that token.
C11_PasswordCleared ==
    (last.op \in {"Create", "Update"} /\ last.err = NoErr) =>
        /\ last.user.Password = <<>>
        /\ last.op = "Create" => last.user.RememberToken # <<>>
        /\ last.op = "Update" => last.user.RememberToken = last.token
        /\ last.user.RememberToken # <<>> =>
               last.user.RememberHash = hmacHash(last.user.RememberToken)

C11_Witness ==
    /\ last.op = "Create"
    /\ last.err = NoErr
    /\ last.password = PwOld
    /\ last.user.Password = <<>>
    /\ last.user.RememberToken = RememberToken(1)
    /\ users[last.user.ID].RememberHash = hmacHash(RememberToken(1))

\* An input of Create that one of the rules of the chain rejects: the email
\* is blank or malformed after normalization, or taken, or the password is
\* shorter than the minimum.
RejectedByCreate(tbl, email, password) ==
    \/ ~WellFormed(Normalized(email))
    \/ StoredUnder(tbl, email) # {}
    \/ Len(password) < MinPwLen

\* C12: when a step of the validation chain fails in Create or Update of the
\* validator, the chain stops at that step (the error is the marker wrapping
\* that one rule's message, the email rules coming first), the store's
\* Create or Update is not called, and the users table is what it was.
C12_ChainFailureWritesNothing ==
    [][ (last = Idle /\ last'.op \in {"Create", "Update"}) =>
          /\ ( \/ last'.op = "Create" /\ RejectedByCreate(users, last'.email, last'.password)
               \/ ~WellFormed(Normalized(last'.email)) )
                 => last'.err # NoErr /\ Head(last'.err) = ValidationMark
          /\ Normalized(last'.email) = <<>>
                 => last'.err = <<ValidationMark, "Email address is required">>
          /\ (last'.err # NoErr /\ Head(last'.err) = ValidationMark) =>
                 /\ Len(last'.err) = 2
                 /\ ~last'.wrote
                 /\ users' = users
                 /\ nextToken' = nextToken ]_vars

C12_Witness ==
    /\ last.op = "Create"
    /\ last.email = EmailFoo
    /\ last.password = PwShort
    /\ last.err # NoErr
    /\ Head(last.err) = ValidationMark
    /\ ~last.wrote
    /\ Len(users) = 1

\* The rows of tbl that token resolves to through GetByRemember.
ResolvesTo(tbl, token) ==
    {i \in DOMAIN tbl : /\ uvGetByRemember(tbl, token, FALSE).err = NoErr
                        /\ uvGetByRemember(tbl, token, FALSE).user.ID = tbl[i].ID}

C14_StatusAsPassed ==
    last.op = "Login" =>
        /\ last.err # NoErr => last.resp.status = StatusUnauthorized
        /\ last.err = NoErr =>
               /\ last.resp.status = StatusOK
               /\ last.resp.body = jsonMarshal(last.user.RememberToken)

\* C15: behind RequireUser of either middleware the wrapped handler is not
\* invoked when the request context carries no user, and is invoked exactly
\* once when it carries one.
C15_RequireUserGuards ==
    last.op \in {"authMW", "jsonAuthMW"} =>
        last.calls = IF last.user = ZeroUser THEN 0 ELSE 1

\* C16: in the Forgot flow the mail is handed over only after the reset
\* record has been created (no record, no mail), and a mail that could not
\* be sent leaves the record in place: the handler reports the error, the
\* record of the generated token is stored and CompletePWReset accepts it.
C16_MailAfterRecord ==
    [][ (last = Idle /\ last'.op = "Forgot") =>
          /\ last'.mail = "none" => (resets' = resets /\ last'.err # NoErr)
          /\ last'.mail # "none" =>
                 /\ Len(resets') = Len(resets) + 1
                 /\ last'.token = RememberToken(nextToken)
                 /\ pwrvGetByToken(resets', last'.token, FALSE).err = NoErr
                 /\ StoredUnder(users, last'.email) # {}
          /\ last'.mail = "sent" => last'.err = NoErr
          /\ last'.mail = "failed" =>
                 /\ last'.err # NoErr
                 /\ CompletePWReset(users, resets', last'.token, PwNew, now,
                                    <<FALSE, FALSE, FALSE, FALSE>>).err = NoErr ]_vars

C16_Witness ==
    /\ last.op = "Forgot"
    /\ last.mail = "failed"
    /\ last.err # NoErr
    /\ Len(resets) = 1
    /\ resets[1].TokenHash = hmacHash(last.token)
    /\ ~resets[1].Deleted

\* The response of the Login handler for the general authentication error.
ErrAuthResponse ==
    [status |-> StatusOK,
     body |-> New(ErrAuth),
     header |-> {<<"WWW-Authenticate", "Basic realm=\"Access to goafweb\"">>,
                 <<"Content-Type", "application/json">>}]

\* C17: for a well-formed email E, the response of the Login handler (status
\* sent, headers, body) when E is not registered is the response when E is
\* registered and the password is wrong: the general ErrAuth error.  Stated
\* for every input in every reachable store, for the store without the user,
\* and for the Login requests made.
C17_LoginHidesEmailValidity ==
    /\ last = Idle =>
         \A e \in EmailInputs, p \in PwInputs :
             WellFormed(Normalized(e)) =>
                 /\ StoredUnder(users, e) = {} =>
                        Login(users, TRUE, e, p, <<>>, <<FALSE, FALSE>>).resp
                            = ErrAuthResponse
                 /\ \A i \in StoredUnder(users, e) :
                        ~PasswordMatches(users[i], p) =>
                            /\ Login(users, TRUE, e, p, <<>>, <<FALSE, FALSE>>).resp
                                   = ErrAuthResponse
                            /\ i = Len(users) =>
                                   Login(WithoutNewest(users), TRUE, e, p, <<>>,
                                         <<FALSE, FALSE>>).resp = ErrAuthResponse
    /\ ( /\ last.op = "Login"
         /\ last.email # <<>>
         /\ WellFormed(Normalized(last.email))
         /\ \A i \in StoredUnder(users, last.email) :
                ~PasswordMatches(users[i], last.password) ) =>
           last.resp = ErrAuthResponse

C17_Witness ==
    /\ last.op = "Login"
    /\ last.email = EmailFooRaw
    /\ last.password = PwNew
    /\ StoredUnder(users, last.email) # {}
    /\ ~PasswordMatches(users[1], last.password)
    /\ last.resp = ErrAuthResponse

\* An error that the persistence layer produced.
FromPersistence(err) == ErrorsIs(err, ErrNotFound) \/ ErrorsIs(err, ErrDatabase)

\* An error that carries the validation marker.
Marked(err) == err # NoErr /\ ErrorsIs(err, ValidationMark)

\* C18: an error returned by an operation of the user validator or of the
\* reset validator carries the "Validation Error" marker if and only if it
\* came from a failed rule: the ID check of the reset validator's Delete
\* carries it, and an error of the persistence layer, a storage failure
\* during the email-availability check included, does not.
C18_MarkerIffRuleFailed ==
    /\ \A id \in {-1, 0} : Marked(pwrvDelete(resets, id, FALSE).err)
    /\ \A id \in 1..MaxResets : ~Marked(pwrvDelete(resets, id, faulty).err)
    /\ (last.op \in {"Create", "Update", "GetByEmail"} /\ last.err # NoErr) =>
           (Marked(last.err) <=> ~FromPersistence(last.err))

\* The records handed to Create of the reset validator: the user ID set or
\* not, the TokenHash empty (as InitiatePWReset builds the record) or set.
PwResetInputs ==
    {[ZeroPwReset EXCEPT !.UserID = u, !.TokenHash = h] :
        u \in 0..MaxUsers, h \in {<<>>, <<"s", "t", "a", "l", "e">>}}

\* What C19 says of the outcome c of Create with the generated token.
TokenHashOfReturnedToken(c, token) ==
    c.err = NoErr =>
        /\ c.pwr.Token = token
        /\ c.resets[c.pwr.ID].TokenHash = hmacHash(c.pwr.Token)
        /\ \A i \in DOMAIN c.resets :
               "Token" \notin DOMAIN c.resets[i] /\ c.resets[i].TokenHash # c.pwr.Token
        /\ pwrvGetByToken(c.resets, c.pwr.Token, FALSE).err = NoErr
        /\ pwrvGetByToken(c.resets, c.pwr.Token, FALSE).pwr.ID = c.pwr.ID

\* C19: for every input record, when Create of the reset validator succeeds,
\* the stored TokenHash is the hash of the Token handed back, the Token is in
\* no stored field, and GetByToken of that Token returns the created record.
C19_StoredHashOfToken ==
    (last = Idle /\ nextToken <= MaxTokens) =>
        \A pwr \in PwResetInputs :
            TokenHashOfReturnedToken(
                pwrvCreate(resets, pwr, RememberToken(nextToken), now, FALSE),
                RememberToken(nextToken))

\* InitiatePWReset has added exactly one reset row, for user row i, under
\* the hash of the token it returned, and has left the users alone.
OneResetFor(i) ==
    /\ last'.err = NoErr
    /\ last'.token # <<>>
    /\ Len(resets') = Len(resets) + 1
    /\ SubSeq(resets', 1, Len(resets)) = resets
    /\ resets'[Len(resets')].UserID = users[i].ID
    /\ resets'[Len(resets')].TokenHash = hmacHash(last'.token)
    /\ ~resets'[Len(resets')].Deleted
    /\ users' = users

\* C20 (as stated): InitiatePWReset(email) for an email that no user has
\* returns an error wrapping ErrNotFound and creates no reset record; for
\* the email of a user it creates exactly one reset record with that user's
\* ID, returns its non-empty token and leaves every user record unchanged.
C20_AsStated ==
    [][ (last = Idle /\ last'.op = "InitiatePWReset") =>
          IF StoredUnder(users, last'.email) = {}
          THEN ErrorsIs(last'.err, ErrNotFound) /\ resets' = resets /\ users' = users
          ELSE \A i \in StoredUnder(users, last'.email) : OneResetFor(i) ]_vars

\* C20 (amended): as stated, except that an email which is empty or
\* malformed once normalized is rejected by the validator before any
\* lookup: the error carries the validation mark and does not wrap
\* ErrNotFound (and no record is created).  ErrNotFound is wrapped when the
\* email is well-formed and no user has it.
C20_InitiateEffects ==
    [][ (last = Idle /\ last'.op = "InitiatePWReset") =>
          IF ~WellFormed(Normalized(last'.email))
          THEN /\ Len(last'.err) > 2
               /\ last'.err[2] = ValidationMark
               /\ ~ErrorsIs(last'.err, ErrNotFound)
               /\ last'.token = <<>>
               /\ resets' = resets /\ users' = users
          ELSE IF StoredUnder(users, last'.email) = {}
          THEN /\ ErrorsIs(last'.err, ErrNotFound)
               /\ last'.token = <<>>
               /\ resets' = resets /\ users' = users
          ELSE \A i \in StoredUnder(users, last'.email) : OneResetFor(i) ]_vars

C20_Witness ==
    /\ last.op = "InitiatePWReset"
    /\ last.email = EmailFooRaw
    /\ last.err = NoErr
    /\ last.token # <<>>
    /\ Len(resets) = 1
    /\ \E i \in StoredUnder(users, last.email) : resets[1].UserID = users[i].ID
    /\ resets[1].TokenHash = hmacHash(last.token)

\* The PasswordHash of every stored user, row by row.
PasswordHashes(tbl) == [i \in DOMAIN tbl |-> tbl[i].PasswordHash]

\* C21: whenever CompletePWReset returns an error (token unknown or empty,
\* record expired, user lookup failed, Update failed) no reset record has
\* been deleted and no stored PasswordHash has changed; a reset record is
\* deleted only by a call that returns no error, whose Update has succeeded.
C21_ErrorChangesNothing ==
    [][ (last = Idle /\ last'.op = "CompletePWReset") =>
          /\ last'.err # NoErr =>
                 /\ resets' = resets
                 /\ users' = users
                 /\ PasswordHashes(users') = PasswordHashes(users)
          /\ resets' # resets =>
                 /\ last'.err = NoErr
                 /\ last'.cleaned
                 /\ last'.user.ID \in DOMAIN users'
                 /\ users'[last'.user.ID].PasswordHash = last'.user.PasswordHash
                 /\ last'.password # <<>> =>
                        PasswordMatches(users'[last'.user.ID], last'.password) ]_vars

C21_Witness ==
    /\ faulty
    /\ last.op = "CompletePWReset"
    /\ last.err = <<"Unable to reset password", ErrDatabase>>
    /\ LiveResets(resets, last.token) # {}
    /\ ~PasswordMatches(users[1], PwNew)
    /\ last.password = PwNew

\* The outcome r of CompletePWReset(token, newPw) whose Delete failed: no
\* error, the updated user, the record still there, newPw authenticates.
DeleteFailureSwallowed(r, newPw) ==
    /\ r.err = NoErr
    /\ ~r.cleaned
    /\ r.resets = resets
    /\ r.user.ID \in DOMAIN r.users
    /\ r.user = [Load(r.users[r.user.ID]) EXCEPT !.Password = r.user.Password,
                                                 !.RememberToken = r.user.RememberToken]
    /\ newPw # <<>> =>
           /\ PasswordMatches(r.users[r.user.ID], newPw)
           /\ Authenticate(r.users, r.user.Email, newPw, FALSE).err = NoErr

\* C22: when the delete of the consumed reset record fails after Update has
\* succeeded, CompletePWReset still returns the updated user and no error,
\* and the new password authenticates.  Stated for every issued token with a
\* live, unexpired record in every reachable state, and for the calls made.
C22_DeleteFailureNotSurfaced ==
    /\ (faulty /\ last = Idle) =>
           \A token \in IssuedTokens, newPw \in PwInputs :
               (\E i \in LiveResets(resets, token) :
                    ~Expired(now, resets[i].CreatedAt)) =>
                   DeleteFailureSwallowed(
                       CompletePWReset(users, resets, token, newPw, now,
                                       <<FALSE, FALSE, FALSE, TRUE>>), newPw)
    /\ (last.op = "CompletePWReset" /\ last.err = NoErr /\ ~last.cleaned) =>
           /\ LiveResets(resets, last.token) # {}
           /\ last.password # <<>> =>
                  PasswordMatches(users[last.user.ID], last.password)

C22_Witness ==
    /\ faulty
    /\ last.op = "CompletePWReset"
    /\ last.err = NoErr
    /\ ~last.cleaned
    /\ last.password = PwNew
    /\ LiveResets(resets, last.token) # {}
    /\ Authenticate(users, last.user.Email, PwNew, FALSE).err = NoErr
    /\ Authenticate(users, last.user.Email, PwOld, FALSE).err # NoErr

\* CompletePWReset with token t would succeed on these tables now.
Accepted(utbl, rtbl, t) ==
    CompletePWReset(utbl, rtbl, t, PwNew, now, <<FALSE, FALSE, FALSE, FALSE>>).err
        = NoErr

\* C23: several unconsumed reset records can exist for one user.  A new
\* InitiatePWReset leaves the earlier records as they are, and a completed
\* reset deletes only the record of its own token: every other token that
\* was accepted before such a step is accepted after it.
C23_OtherTokensStayValid ==
    [][ (last = Idle /\ last'.op \in {"InitiatePWReset", "CompletePWReset"}) =>
          /\ \A t \in IssuedTokens :
                 (t # last'.token /\ Accepted(users, resets, t)) =>
                     /\ Accepted(users', resets', t)
                     /\ LiveResets(resets', t) = LiveResets(resets, t)
          /\ last'.op = "InitiatePWReset" =>
                 SubSeq(resets', 1, Len(resets)) = resets
          /\ last'.op = "CompletePWReset" =>
                 /\ Len(resets') = Len(resets)
                 /\ \A i \in DOMAIN resets :
                        resets'[i] # resets[i] =>
                            /\ last'.err = NoErr
                            /\ i \in LiveResets(resets, last'.token)
                            /\ resets'[i] = [resets[i] EXCEPT !.Deleted = TRUE] ]_vars

C23_Witness ==
    /\ last.op = "CompletePWReset"
    /\ last.err = NoErr
    /\ Len(resets) = 2
    /\ resets[1].UserID = resets[2].UserID
    /\ resets[1].Deleted
    /\ ~resets[2].Deleted
    /\ last.token = RememberToken(2)
    /\ Accepted(users, resets, RememberToken(3))

\* The errors an ORM call ends with: none, record not found, any other.
GormErrors == {"nil", "RecordNotFound", "other"}

\* What C24 says checkErr returns for an ORM error.
AppScoped(gormErr, err) ==
    /\ gormErr = "nil" => err = NoErr
    /\ gormErr = "RecordNotFound" => err = New(ErrNotFound)
    /\ gormErr = "other" => err = New(ErrDatabase)

\* C24: checkErr returns nil for a nil error, ErrNotFound for the ORM's
\* record-not-found error and a generic database error otherwise, in each
\* copy of it, so that a storage operation whose ORM call succeeded reports
\* success.  Stated for the three outcomes, and for the outcome of the
\* lookup by each input email in every reachable users table.
C24_CheckErrConverts ==
    /\ \A g \in GormErrors : AppScoped(g, checkErr(g))
    /\ \A e \in EmailInputs :
           /\ AppScoped(gormFirst(users, StoredUnder(users, e), faulty),
                        checkErr(gormFirst(users, StoredUnder(users, e), faulty)))
           /\ AppScoped(gormFirst(users, StoredUnder(users, e), faulty),
                        checkErrRev3(gormFirst(users, StoredUnder(users, e), faulty)))

\* Caller p has come back from CompletePWReset(token, ...) without error.
ResetSucceeded(p, token) ==
    /\ procs[p].op = "CompletePWReset"
    /\ procs[p].token = token
    /\ procs[p].pc = "done"
    /\ procs[p].err = NoErr

PassedCheck(p, e) ==
    /\ procs[p].op = "Create"
    /\ procs[p].pc \in {"write", "done"}
    /\ procs[p].user.Email = e
    /\ procs[p].user.PasswordHash # <<>>

\* C26 (as stated): when two Create calls whose emails normalize to the
\* same value run concurrently, the validator lets at most one of them reach
\* the store's Create: no state has both past the availability check.
C26_AsStated ==
    \A e \in {Normalized(x) : x \in EmailInputs} :
        ~(PassedCheck("p1", e) /\ PassedCheck("p2", e))

\* C26 (amended): both calls can pass the availability check, each before
\* the other has written.  The unique index of the users table then lets
\* at most one write through: a call that loses returns a database error, which
\* does not carry the validation mark, and no two stored users ever have
\* the same email.
C26_UniqueIndexDecides ==
    /\ \A i, j \in DOMAIN users : users[i].Email = users[j].Email => i = j
    /\ \A e \in {Normalized(x) : x \in EmailInputs} :
           (/\ PassedCheck("p1", e) /\ procs["p1"].pc = "done"
            /\ PassedCheck("p2", e) /\ procs["p2"].pc = "done") =>
               /\ \E i \in DOMAIN users : users[i].Email = e
               /\ \E q \in Procs :
                      procs[q].err = New(ErrDatabase) /\ procs[q].user.ID = 0
               /\ \A p \in Procs :
                      \/ procs[p].err = New(ErrDatabase) /\ procs[p].user.ID = 0
                      \/ /\ procs[p].err = NoErr
                         /\ procs[p].user.ID \in DOMAIN users
                         /\ users[procs[p].user.ID].Email = e

C26_Witness ==
    /\ PassedCheck("p1", EmailFoo) /\ procs["p1"].pc = "done"
    /\ PassedCheck("p2", EmailFoo) /\ procs["p2"].pc = "done"
    /\ procs["p1"].email = EmailFooRaw
    /\ procs["p2"].email = EmailFoo
    /\ procs["p1"].err = New(ErrDatabase)
    /\ procs["p2"].err = NoErr
    /\ Len(users) = 1

\* The rows, other than the one with this ID, stored under the
\* normalization of e.
HeldByAnother(tbl, e, id) == {i \in StoredUnder(tbl, e) : tbl[i].ID # id}

\* C27 (as stated): no two stored users have the same normalized email, and
\* the validation layer rejects an Update that would give a stored user an email
\* held by a different user, as it does for Create: a validation error, the
\* store not called.
C27_AsStated ==
    /\ \A i, j \in DOMAIN users : users[i].Email = users[j].Email => i = j
    /\ (last.op = "Update" /\ last.user.ID # 0
           /\ HeldByAnother(users, last.email, last.user.ID) # {}) =>
           /\ Marked(last.err)
           /\ ~last.wrote

\* C27 (amended): no two stored users have the same email, and every stored
\* email is normalized.  Update's rules do not look the email up: an Update
\* to an email held by a different user passes validation (unless another
\* rule fails), reaches the store and is refused there by the unique index,
\* with a database error that does not carry the validation mark.
C27_EmailsStayUnique ==
    /\ \A i, j \in DOMAIN users : users[i].Email = users[j].Email => i = j
    /\ \A i \in DOMAIN users : users[i].Email = Normalized(users[i].Email)
    /\ (last.op = "Update" /\ last.user.ID # 0
           /\ HeldByAnother(users, last.email, last.user.ID) # {}) =>
           /\ last.err # NoErr
           /\ ~ErrorsIs(last.err, ErrTaken)
           /\ Marked(last.err) <=> ~last.wrote
           /\ last.wrote => last.err = New(ErrDatabase)
    /\ (last.op = "Create" /\ last.err = NoErr) =>
           HeldByAnother(users, last.email, last.user.ID) = {}

C27_Witness ==
    /\ last.op = "Update"
    /\ Len(users) = 2
    /\ last.user.ID = 2
    /\ last.email = EmailFooRaw
    /\ users[1].Email = EmailFoo
    /\ users[2].Email = EmailAb
    /\ last.wrote
    /\ last.err = New(ErrDatabase)


\* C28: the password rules of Create hold on the reset path.  A
\* CompletePWReset call whose new password is empty or shorter than
\* MinPwLen returns an error, changes no stored PasswordHash and leaves the
\* reset records as they were; and after any step no stored user is
\* authenticated by a password shorter than MinPwLen.
C28_ResetEnforcesPasswordRules ==
    [][ /\ (last = Idle /\ last'.op = "CompletePWReset"
                /\ Len(last'.password) < MinPwLen) =>
            /\ last'.err # NoErr
            /\ PasswordHashes(users') = PasswordHashes(users)
            /\ resets' = resets
        /\ last'.op = "CompletePWReset" =>
            \A i \in DOMAIN users' :
                \A p \in {q \in PwInputs : Len(q) < MinPwLen} :
                    PasswordMatches(users[i], p) \/ ~PasswordMatches(users'[i], p)
      ]_vars


\* The users the live reset record of this token was issued for.
OwnersOf(rtbl, token) == {rtbl[i].UserID : i \in LiveResets(rtbl, token)}

\* C29: a reset token is bound to the user it was issued for.  A
\* CompletePWReset(T, P) step that returns no error returns the user whose ID
\* is the UserID of T's reset record; only that user's PasswordHash can
\* differ afterwards, and it then is the hash of P; every other stored user
\* is unchanged, and that user's Email and RememberHash are unchanged.
C29_TokenBoundToUser ==
    [][ (last = Idle /\ last'.op = "CompletePWReset" /\ last'.err = NoErr) =>
          /\ OwnersOf(resets, last'.token) = {last'.user.ID}
          /\ DOMAIN users' = DOMAIN users
          /\ \A i \in DOMAIN users :
                 IF users[i].ID = last'.user.ID
                 THEN /\ users'[i].ID = users[i].ID
                      /\ users'[i].Email = users[i].Email
                      /\ users'[i].RememberHash = users[i].RememberHash
                      /\ IF last'.password = <<>>
                         THEN users'[i].PasswordHash = users[i].PasswordHash
                         ELSE PasswordMatches(users'[i], last'.password)
                 ELSE users'[i] = users[i] ]_vars

C29_Witness ==
    /\ Len(users) = 2
    /\ last.op = "CompletePWReset"
    /\ last.err = NoErr
    /\ last.password = PwNew
    /\ last.user.ID = 2
    /\ PasswordMatches(users[2], PwNew)
    /\ PasswordMatches(users[1], PwOld)
    /\ ~PasswordMatches(users[1], PwNew)

====
